---------------------------- MODULE Spec2Model ----------------------------
(***************************************************************************)
(* The Nasdaq-100 portfolio tracker (src/Untitled-1.py), a Streamlit       *)
(* script.  Streamlit re-runs the script top to bottom on every page load  *)
(* and form submission: one run is one "pass".  The model follows one      *)
(* browser session through any sequence of passes; each action is one      *)
(* block of the script, and an uncaught exception ends the pass where it   *)
(* is raised (what was rendered before it stays on the page).              *)
(*                                                                         *)
(* Numbers.  pandas cells are floats that may be NaN.  A cell is modelled  *)
(* as a sequence: <<>> is NaN and <<v>> holds the value v.  Shares, prices *)
(* and values are naturals; weights and gaps are exact rationals           *)
(* [n |-> numerator, d |-> denominator > 0] in lowest terms, so floating   *)
(* point rounding is not modelled.                                         *)
(***************************************************************************)
EXTENDS Integers, Sequences, FiniteSets, TLC

\* ------------------------------------------------------------------ bounds

\* The scraped index table has at most MaxRows constituents.
MaxRows == 2

\* ---------------------------------------------------- program constants

purchase_amount == 1250

\* top20 = nasdaq_df.head(20)
TopN == 20

default_portfolio ==
    ("AAPL" :> 11) @@ ("MSFT" :> 5) @@ ("NVDA" :> 17) @@ ("CSCO" :> 23) @@
    ("AMZN" :> 7) @@ ("GOOGL" :> 8) @@ ("TMUS" :> 5) @@ ("AVGO" :> 6) @@
    ("META" :> 2) @@ ("NFLX" :> 1) @@ ("BRK-B" :> 2) @@ ("COST" :> 1)

\* default_portfolio.get(ticker, 0)
DefaultShares(ticker) ==
    IF ticker \in DOMAIN default_portfolio THEN default_portfolio[ticker] ELSE 0

\* --------------------------------------------------------- environment

\* The tickers the scraped table may list.
Tickers == {"AAPL", "MSFT", "TSLA"}

\* The 'Portfolio%' values the scraped table may carry, after the
\* conversion to float.
WeightValues == {40, 60}

\* The positions the user may drag a slider to (the slider's range is 0..50).
SliderChoices == {0, 10}

\* Latest close prices the market-data fetch may return.
PriceValues == {100, 200}

\* Columns of the frame yf.download(..., auto_adjust=True) returns when its
\* columns are not a MultiIndex (a single-ticker download).  The frame has
\* Open, High, Low, Close and Volume; the model keeps two of them.
FlatColumns == {"Close", "Volume"}

\* ------------------------------------------------------------ cells

NaN == <<>>

Num(v) == <<v>>

IsNaN(c) == c = NaN

Val(c) == c[1]

\* ---------------------------------------------------------- rationals

Abs(x) == IF x < 0 THEN -x ELSE x

RECURSIVE Gcd(_, _)
Gcd(a, b) == IF b = 0 THEN a ELSE Gcd(b, a % b)

\* n / d in lowest terms, d > 0.
Rat(n, d) ==
    LET g == Gcd(Abs(n), d)
    IN  [n |-> n \div g, d |-> d \div g]

RatOfInt(i) == [n |-> i, d |-> 1]

RatSub(a, b) == Rat(a.n * b.d - b.n * a.d, a.d * b.d)

RatAdd(a, b) == Rat(a.n * b.d + b.n * a.d, a.d * b.d)

RatAbs(a) == [n |-> Abs(a.n), d |-> a.d]

RatLess(a, b) == a.n * b.d < b.n * a.d

RatLeq(a, b) == a.n * b.d <= b.n * a.d

\* ------------------------------------------------------------ sequences

\* DataFrame.head(n)
Head_n(s, n) == SubSeq(s, 1, IF Len(s) < n THEN Len(s) ELSE n)

RECURSIVE SeqsOver(_, _)
\* The sequences of length k of distinct elements of S.
SeqsOver(S, k) ==
    IF k = 0 THEN {<<>>}
    ELSE UNION {{<<x>> \o s : s \in SeqsOver(S \ {x}, k - 1)} : x \in S}

\* ----------------------------------------------------------- the table

\* What lines 17-28 leave in nasdaq_df: one row per constituent, in page
\* order, the ticker as index and the weight converted to a number.
IndexTables ==
    UNION {{[i \in 1..k |-> [Ticker |-> ts[i], Weight |-> ws[i]]] :
                ts \in SeqsOver(Tickers, k), ws \in [1..k -> WeightValues]} :
           k \in 0..(IF MaxRows < Cardinality(Tickers)
                     THEN MaxRows ELSE Cardinality(Tickers))}

TableIndex(table) == {table[i].Ticker : i \in 1..Len(table)}

\* nasdaq_df.loc[ticker, 'Nasdaq100 Weight (%)']
TableWeight(table, ticker) ==
    LET i == CHOOSE j \in 1..Len(table) : table[j].Ticker = ticker
    IN  table[i].Weight


\* ------------------------------------------------- the sidebar form

\* Lines 43-49: the dictionary the form leaves in portfolio: the top-20
\* tickers whose slider is above 0, with the slider's value.
BuildPortfolio(top20, sliderOf) ==
    [t \in {u \in TableIndex(top20) : sliderOf[u] > 0} |-> sliderOf[t]]

\* A session that starts with the flag cleared, so that the first pass
\* waits for a submission.
InitialSubmittedFalse == "False"

\* Line 40: the value a fresh session gives portfolio_submitted.
InitialSubmitted == "True"

\* ------------------------------------------------- the price frame

\* Line 59, data.columns a MultiIndex: data['Close'].iloc[-1], a Series
\* with one cell per requested ticker; a ticker whose download failed, or
\* that has no close in the last row, holds NaN.
MultiRows(tks) == [tks -> {NaN} \cup {Num(p) : p \in PriceValues}]

\* Line 59, data.columns flat: data.iloc[-1], the last row of the frame: a
\* Series indexed by the frame's COLUMN names, not by ticker.  The cells'
\* values play no part in what follows other than being numbers; one
\* quote stands for all of them.
FlatRows == {[f \in FlatColumns |-> Num(q)] : q \in PriceValues}

\* ------------------------------------------------- portfolio weights

RECURSIVE SumSkipNa(_, _)
\* Series.sum(): NaN cells are skipped, the sum of nothing is 0.
SumSkipNa(col, S) ==
    IF S = {} THEN 0
    ELSE LET x == CHOOSE y \in S : TRUE
         IN  (IF IsNaN(col[x]) THEN 0 ELSE Val(col[x])) + SumSkipNa(col, S \ {x})

\* Line 63: Shares * Price, NaN when either is.
Product(a, b) == IF IsNaN(a) \/ IsNaN(b) THEN NaN ELSE Num(Val(a) * Val(b))

\* The weight as a fraction of 1 instead of a percentage.
WeightCellNoPercent(value, total) ==
    IF IsNaN(value) \/ total = 0 THEN NaN ELSE Num(Rat(Val(value), total))

\* Line 64: 100 * Value / Value.sum().  NaN propagates, and 0.0 / 0.0 is
\* NaN; a value is never positive while the sum is 0.
WeightCell(value, total) ==
    IF IsNaN(value) \/ total = 0 THEN NaN ELSE Num(Rat(100 * Val(value), total))

\* Lines 62-64: df.  A DataFrame built from two Series takes the union of
\* their indexes; a label one of them lacks gets NaN in that column.
MakeFrame(pf, pr) ==
    LET index  == DOMAIN pf \cup DOMAIN pr
        Shares == [l \in index |-> IF l \in DOMAIN pf THEN Num(pf[l]) ELSE NaN]
        Price  == [l \in index |-> IF l \in DOMAIN pr THEN pr[l] ELSE NaN]
        Value  == [l \in index |-> Product(Shares[l], Price[l])]
        total  == SumSkipNa(Value, index)
    IN  [index  |-> index,
         Shares |-> Shares,
         Price  |-> Price,
         Value  |-> Value,
         Weight |-> [l \in index |-> WeightCell(Value[l], total)]]

\* df['Value'].sum(), lines 72 and 107.
TotalValue(frame) == SumSkipNa(frame.Value, frame.index)

\* ------------------------------------------------- merge and compare

\* .fillna(0)
FillNa(c, zero) == IF IsNaN(c) THEN zero ELSE Val(c)

\* Lines 67-68: the outer merge of df with the weight column of nasdaq_df
\* on their indexes, fillna(0), and the Difference column.  One row per
\* label of either index.
MergedRow(frame, table, l) ==
    LET inDf   == l \in frame.index
        weight == IF inDf THEN FillNa(frame.Weight[l], RatOfInt(0)) ELSE RatOfInt(0)
        target == IF l \in TableIndex(table) THEN TableWeight(table, l) ELSE 0
    IN  [Ticker     |-> l,
         Shares     |-> IF inDf THEN FillNa(frame.Shares[l], 0) ELSE 0,
         Price      |-> IF inDf THEN FillNa(frame.Price[l], 0) ELSE 0,
         Value      |-> IF inDf THEN FillNa(frame.Value[l], 0) ELSE 0,
         Weight     |-> weight,
         Target     |-> target,
         Difference |-> RatSub(weight, RatOfInt(target))]

MergedRows(frame, table) ==
    {MergedRow(frame, table, l) : l \in frame.index \cup TableIndex(table)}

RECURSIVE SortedOrders(_)
\* Line 69: sort_values('Nasdaq100 Weight (%)', ascending=False) with the
\* default kind='quicksort', which is not stable: the rows come out in
\* descending target weight, and rows of equal target weight in an order
\* the sort does not specify.  Every such order is an outcome.
SortedOrders(rows) ==
    IF rows = {} THEN {<<>>}
    ELSE LET top == {r \in rows : \A q \in rows : q.Target <= r.Target}
         IN  UNION {{<<r>> \o s : s \in SortedOrders(rows \ {r})} : r \in top}

\* ------------------------------------------------- the suggestion

\* The projected weight of the ticker without the purchase added to its
\* own value.
SuggestionNoPurchase(row, total) ==
    LET new_total  == total + purchase_amount
        new_weight == Rat(100 * row.Value, new_total)
        new_diff   == RatAbs(RatSub(new_weight, RatOfInt(row.Target)))
    IN  [ticker |-> row.Ticker, new_diff |-> new_diff, target_weight |-> row.Target]

\* Lines 111-117: the tuple appended for one row of comparison.
Suggestion(row, total) ==
    LET new_value  == row.Value + purchase_amount
        new_total  == total + purchase_amount
        new_weight == Rat(100 * new_value, new_total)
        new_diff   == RatAbs(RatSub(new_weight, RatOfInt(row.Target)))
    IN  [ticker |-> row.Ticker, new_diff |-> new_diff, target_weight |-> row.Target]

\* Lines 110-117: the list the loop builds, in the order of comparison.
Suggestions(rows, total) == [i \in 1..Len(rows) |-> Suggestion(rows[i], total)]

\* An unstable insertion: x goes in front of the elements whose key equals
\* its own.
InsertSortedUnstable(sorted, x) ==
    LET behind == {i \in 1..Len(sorted) : RatLess(sorted[i].new_diff, x.new_diff)}
        k      == Cardinality(behind)
    IN  SubSeq(sorted, 1, k) \o <<x>> \o SubSeq(sorted, k + 1, Len(sorted))

\* list.sort is stable: x goes behind every element whose key is not
\* greater than its own.
InsertSorted(sorted, x) ==
    LET behind == {i \in 1..Len(sorted) : RatLeq(sorted[i].new_diff, x.new_diff)}
        k      == Cardinality(behind)
    IN  SubSeq(sorted, 1, k) \o <<x>> \o SubSeq(sorted, k + 1, Len(sorted))

RECURSIVE SortByGap(_)
\* Line 119: suggestions.sort(key=lambda x: x[1])
SortByGap(s) ==
    IF s = <<>> THEN <<>>
    ELSE InsertSorted(SortByGap(SubSeq(s, 1, Len(s) - 1)), s[Len(s)])

\* Line 122: purchase_amount / price; NaN when the price is.
SharesToBuy(priceCell) ==
    IF IsNaN(priceCell) THEN NaN ELSE Num(Rat(purchase_amount, Val(priceCell)))


\* Lines 127-128: the format specs {:.2f}: a number rounded to hundredths
\* (returned as the count of hundredths), ties to even; NaN prints "nan".
Round2(c) ==
    IF IsNaN(c) THEN NaN
    ELSE LET r    == Val(c)
             q    == (100 * r.n) \div r.d
             rem2 == 2 * ((100 * r.n) % r.d)
         IN  Num(IF rem2 > r.d \/ (rem2 = r.d /\ q % 2 = 1) THEN q + 1 ELSE q)

\* ------------------------------------------------------------- state

VARIABLES
    portfolio_submitted,  \* st.session_state: "absent", "True" or "False"
    sliders,              \* the session's slider positions, per ticker
    submitted,            \* st.form_submit_button's result in this pass
    ever_submitted,       \* history: the form was submitted in this session
    drawn,                \* the tickers that have a slider on the page
    pc,                   \* the block of the script the pass is at
    nasdaq_df,            \* the scraped table
    portfolio,            \* ticker -> shares, from the form
    prices,               \* the Series of line 59
    df,                   \* the frame of lines 62-64
    comparison,           \* the merged rows, in their sorted order
    suggestions,          \* the sorted list of line 119
    price,                \* line 121
    rendered,             \* the panels on the page
    recommendation,       \* what the recommendation panel shows
    error                 \* the uncaught exception that ended the pass

vars == <<portfolio_submitted, sliders, submitted, ever_submitted, drawn, pc,
          nasdaq_df, portfolio, prices, df, comparison, suggestions, price,
          rendered, recommendation, error>>

session == <<portfolio_submitted, sliders, submitted, ever_submitted, drawn>>

NoError == [line |-> 0, exc |-> "none"]

Raised(line, exc) == [line |-> line, exc |-> exc]

NoFrame == MakeFrame(<<>>, <<>>)

Ended == {"done", "stopped", "failed"}

\* The state of a pass before its first statement.
FreshPass ==
    /\ pc' = "scrape"
    /\ drawn' = {}
    /\ nasdaq_df' = <<>>
    /\ portfolio' = <<>>
    /\ prices' = <<>>
    /\ df' = NoFrame
    /\ comparison' = <<>>
    /\ suggestions' = <<>>
    /\ price' = NaN
    /\ rendered' = {}
    /\ recommendation' = <<>>
    /\ error' = NoError

\* An uncaught exception: Streamlit shows it and the script stops there.
Abort(line, exc) ==
    /\ pc' = "failed"
    /\ error' = Raised(line, exc)

Init ==
    /\ portfolio_submitted = "absent"
    /\ sliders = [t \in Tickers |-> DefaultShares(t)]
    /\ submitted = FALSE
    /\ ever_submitted = FALSE
    /\ drawn = {}
    /\ pc = "scrape"
    /\ nasdaq_df = <<>>
    /\ portfolio = <<>>
    /\ prices = <<>>
    /\ df = NoFrame
    /\ comparison = <<>>
    /\ suggestions = <<>>
    /\ price = NaN
    /\ rendered = {}
    /\ recommendation = <<>>
    /\ error = NoError

\* ------------------------------------------------------------ reruns

\* The page is loaded again in the same session: the script re-runs, the
\* form button reports False and the widgets keep their positions.
PageLoad ==
    /\ pc = "idle"
    /\ submitted' = FALSE
    /\ UNCHANGED <<portfolio_submitted, sliders, ever_submitted>>
    /\ FreshPass

\* The user moves sliders of the form on the page and presses "Update
\* Portfolio": the script re-runs with the new positions and the button
\* reports True (line 44).
SubmitForm ==
    /\ pc = "idle"
    /\ "form" \in rendered
    /\ \E moved \in [drawn -> SliderChoices \cup {-1}] :
          sliders' = [t \in Tickers |->
                        IF t \in DOMAIN moved /\ moved[t] # -1
                        THEN moved[t] ELSE sliders[t]]
    /\ submitted' = TRUE
    /\ ever_submitted' = TRUE
    /\ UNCHANGED portfolio_submitted
    /\ FreshPass

\* ------------------------------------------------------- the script

\* Lines 17-28: the index table is fetched and parsed; the request or the
\* parse may raise.
FetchWeights ==
    /\ pc = "scrape"
    /\ \/ /\ \E table \in IndexTables : nasdaq_df' = table
          /\ pc' = "form"
          /\ UNCHANGED error
       \/ /\ Abort(19, "FetchError")
          /\ UNCHANGED nasdaq_df
    /\ UNCHANGED <<session, portfolio, prices, df, comparison, suggestions,
                   price, rendered, recommendation>>

\* Lines 39-40 and 50-51: portfolio_submitted after the form.
SubmittedAfterForm(flag, pressed) ==
    IF pressed THEN "True"
    ELSE IF flag = "absent" THEN InitialSubmitted ELSE flag

\* Lines 32-54: the flag is initialised, the form is drawn with one slider
\* per top-20 ticker and portfolio is built from the positions; the pass
\* stops here unless portfolio_submitted is true.  A slider that is not
\* drawn in a pass loses its position: it is back at its default when its
\* ticker returns.
Form ==
    /\ pc = "form"
    /\ LET top20 == Head_n(nasdaq_df, TopN)
       IN  /\ portfolio' = BuildPortfolio(top20, sliders)
           /\ drawn' = TableIndex(top20)
           /\ sliders' = [t \in Tickers |->
                            IF t \in TableIndex(top20)
                            THEN sliders[t] ELSE DefaultShares(t)]
    /\ portfolio_submitted' = SubmittedAfterForm(portfolio_submitted, submitted)
    /\ rendered' = rendered \cup {"form"}
    /\ pc' = IF portfolio_submitted' = "True" THEN "prices" ELSE "stopped"
    /\ UNCHANGED <<submitted, ever_submitted, nasdaq_df, prices, df, comparison,
                   suggestions, price, recommendation, error>>

\* Lines 57-59: the closes of the held tickers are downloaded.  The
\* download may raise; it may return a frame without rows (always, for an
\* empty ticker list), on which iloc[-1] raises IndexError; for a single
\* ticker it may return a frame with flat columns; otherwise the columns
\* are a MultiIndex.
FetchPrices ==
    /\ pc = "prices"
    /\ LET tickers == DOMAIN portfolio
       IN  \/ /\ Abort(58, "FetchError")
              /\ UNCHANGED prices
           \/ /\ Abort(59, "IndexError")
              /\ UNCHANGED prices
           \/ /\ tickers # {}
              /\ \E row \in MultiRows(tickers) : prices' = row
              /\ pc' = "weights"
              /\ UNCHANGED error
           \/ /\ Cardinality(tickers) = 1
              /\ \E row \in FlatRows : prices' = row
              /\ pc' = "weights"
              /\ UNCHANGED error
    /\ UNCHANGED <<session, nasdaq_df, portfolio, df, comparison, suggestions,
                   price, rendered, recommendation>>

\* Lines 62-69: df, then comparison in one of the orders the sort may
\* leave it in.
Weights ==
    /\ pc = "weights"
    /\ df' = MakeFrame(portfolio, prices)
    /\ \E order \in SortedOrders(MergedRows(df', nasdaq_df)) : comparison' = order
    /\ pc' = "value_panel"
    /\ UNCHANGED <<session, nasdaq_df, portfolio, prices, suggestions, price,
                   rendered, recommendation, error>>

\* Lines 72-84: the FX rate is downloaded (the download or iloc[0] may
\* raise) and the value panel is drawn.
ValuePanel ==
    /\ pc = "value_panel"
    /\ \/ /\ rendered' = rendered \cup {"summary"}
          /\ pc' = "chart"
          /\ UNCHANGED error
       \/ /\ Abort(73, "FetchError")
          /\ UNCHANGED rendered
    /\ UNCHANGED <<session, nasdaq_df, portfolio, prices, df, comparison,
                   suggestions, price, recommendation>>

\* Lines 95-103: the bar chart is drawn.
Chart ==
    /\ pc = "chart"
    /\ rendered' = rendered \cup {"chart"}
    /\ pc' = "suggest"
    /\ UNCHANGED <<session, nasdaq_df, portfolio, prices, df, comparison,
                   suggestions, price, recommendation, error>>

\* A selection guarded by "if suggestions:", which skips the
\* recommendation silently when there is no candidate.
AfterSelectionSkip(sorted) == IF sorted = <<>> THEN "done" ELSE "price"

\* Line 120: suggestions[0] raises IndexError on an empty list.
AfterSelection(sorted) == IF sorted = <<>> THEN "failed" ELSE "price"

\* Lines 106-120: every row's projected gap, the stable sort, the first
\* element.
Suggest ==
    /\ pc = "suggest"
    /\ suggestions' = SortByGap(Suggestions(comparison, TotalValue(df)))
    /\ pc' = AfterSelection(suggestions')
    /\ error' = IF pc' = "failed" THEN Raised(120, "IndexError") ELSE error
    /\ UNCHANGED <<session, nasdaq_df, portfolio, prices, df, comparison,
                   price, rendered, recommendation>>

\* Line 121: the price of best_ticker: df's cell when df has the label
\* (NaN included), else a lookup that may raise or return a quote.
PriceLookup ==
    /\ pc = "price"
    /\ LET best_ticker == suggestions[1].ticker
       IN  \/ /\ best_ticker \in df.index
              /\ price' = df.Price[best_ticker]
              /\ pc' = "rec_panel"
              /\ UNCHANGED error
           \/ /\ best_ticker \notin df.index
              /\ \E q \in PriceValues : price' = Num(q)
              /\ pc' = "rec_panel"
              /\ UNCHANGED error
           \/ /\ best_ticker \notin df.index
              /\ Abort(121, "FetchError")
              /\ UNCHANGED price
    /\ UNCHANGED <<session, nasdaq_df, portfolio, prices, df, comparison,
                   suggestions, rendered, recommendation>>

\* What lines 124-130 print.
Panel(best, priceCell) ==
    [best_ticker   |-> best.ticker,
     shares_to_buy |-> Round2(SharesToBuy(priceCell)),
     target_weight |-> Round2(Num(RatOfInt(best.target_weight))),
     projected_gap |-> Round2(Num(best.new_diff))]

\* Lines 122-130: the share count and the recommendation panel.
RecPanel ==
    /\ pc = "rec_panel"
    /\ recommendation' = Panel(suggestions[1], price)
    /\ rendered' = rendered \cup {"recommendation"}
    /\ pc' = "done"
    /\ UNCHANGED <<session, nasdaq_df, portfolio, prices, df, comparison,
                   suggestions, price, error>>

\* The run is over (last line, st.stop() or an uncaught exception): the
\* script's variables are gone; the page and the session stay.
RunEnds ==
    /\ pc \in Ended
    /\ pc' = "idle"
    /\ nasdaq_df' = <<>>
    /\ portfolio' = <<>>
    /\ prices' = <<>>
    /\ df' = NoFrame
    /\ comparison' = <<>>
    /\ suggestions' = <<>>
    /\ price' = NaN
    /\ UNCHANGED <<session, rendered, recommendation, error>>

Next ==
    \/ PageLoad
    \/ SubmitForm
    \/ FetchWeights
    \/ Form
    \/ FetchPrices
    \/ Weights
    \/ ValuePanel
    \/ Chart
    \/ Suggest
    \/ PriceLookup
    \/ RecPanel
    \/ RunEnds

Spec == Init /\ [][Next]_vars


\* ------------------------------------------- the engine on any input

\* Holdings the engine may be handed: any tickers, held or not by the
\* index, with a positive share count.
AnyHoldings ==
    UNION {[held -> SliderChoices \ {0}] : held \in SUBSET Tickers}

\* Lines 61-130 as a computation of its inputs: the index table, the
\* holdings and one price cell per held ticker are arbitrary, the empty
\* ones included, and the script runs from line 62.
InitEngine ==
    /\ portfolio_submitted = "True"
    /\ sliders = [t \in Tickers |-> DefaultShares(t)]
    /\ submitted = FALSE
    /\ ever_submitted = FALSE
    /\ drawn = {}
    /\ pc = "weights"
    /\ nasdaq_df \in IndexTables
    /\ portfolio \in AnyHoldings
    /\ prices \in MultiRows(DOMAIN portfolio)
    /\ df = NoFrame
    /\ comparison = <<>>
    /\ suggestions = <<>>
    /\ price = NaN
    /\ rendered = {}
    /\ recommendation = <<>>
    /\ error = NoError

NextEngine ==
    \/ Weights
    \/ ValuePanel
    \/ Chart
    \/ Suggest
    \/ PriceLookup
    \/ RecPanel

SpecEngine == InitEngine /\ [][NextEngine]_vars


\* ================================================================ claims

\* The pass has run the form, lines 39-54.
PastForm ==
    \/ pc \in {"prices", "weights", "value_panel", "chart", "suggest", "price",
              "rec_panel", "done", "stopped"}
    \/ pc = "failed" /\ error.line # 19

\* The pass has run lines 62-69.
PastWeights ==
    \/ pc \in {"value_panel", "chart", "suggest", "price", "rec_panel", "done"}
    \/ pc = "failed" /\ error.line \in {73, 120, 121}

\* The pass has run lines 106-120.
PastSuggest ==
    \/ pc \in {"price", "rec_panel", "done"}
    \/ pc = "failed" /\ error.line \in {120, 121}

\* The pass has selected best_ticker.
Selected == PastSuggest /\ suggestions # <<>>

Held == DOMAIN portfolio

\* The held ticker has a price in prices.
Priced(t) == t \in DOMAIN prices /\ ~IsNaN(prices[t])

Panels == {"summary", "chart", "recommendation"}

\* The value of a holding as the specification defines it: shares x price,
\* and 0 for a ticker that is not held (or whose price is missing).
HeldValue(t) ==
    IF t \in Held /\ Priced(t) THEN portfolio[t] * Val(prices[t]) ELSE 0

RECURSIVE SumOver(_, _)
SumOver(f, S) ==
    IF S = {} THEN 0
    ELSE LET x == CHOOSE y \in S : TRUE IN f[x] + SumOver(f, S \ {x})

CurrentTotalValue == SumOver([t \in Held |-> HeldValue(t)], Held)

RECURSIVE RatSum(_, _)
RatSum(f, S) ==
    IF S = {} THEN RatOfInt(0)
    ELSE LET x == CHOOSE y \in S : TRUE IN RatAdd(f[x], RatSum(f, S \ {x}))

\* |100 * (value + purchaseAmount) / (currentTotalValue + purchaseAmount)
\*  - targetWeight| for a ticker, from the inputs of the pass.
ProjectedGap(t, target, currentTotalValue) ==
    RatAbs(RatSub(Rat(100 * (HeldValue(t) + 1250), currentTotalValue + 1250),
                  RatOfInt(target)))

\* The projected gap of every row of comparison.
RowGaps ==
    LET total == CurrentTotalValue
    IN  [i \in 1..Len(comparison) |->
           ProjectedGap(comparison[i].Ticker, comparison[i].Target, total)]

Rows == 1..Len(comparison)

\* The row of comparison the selection took.
BestRow == CHOOSE i \in Rows : comparison[i].Ticker = suggestions[1].ticker

\* Python's order of the labels (by code point).
Alphabetical == <<"AAPL", "Close", "MSFT", "TSLA", "Volume">>

Rank(l) == CHOOSE i \in 1..Len(Alphabetical) : Alphabetical[i] = l

\* C1: whenever a held ticker has no price, the comparison fails with
\* MissingPriceError: no comparison rows exist in that pass and the pass
\* does not go on with a zero value or zero weight for the ticker.
C1_MissingPriceFails ==
    (pc \notin {"scrape", "form", "prices"} /\ prices # <<>>
        /\ \E t \in Held : ~Priced(t))
    => /\ comparison = <<>>
       /\ Panels \cap rendered = {}
       /\ pc = "weights" \/ (pc = "failed" /\ error.exc = "MissingPriceError")

\* C2: when the total held value is zero the computation signals
\* DegenerateInputError and the pass ends there: no NaN weight is left in
\* df and neither the summary, the chart nor the recommendation is drawn.
C2_ZeroTotalFails ==
    (PastWeights /\ TotalValue(df) = 0)
    => /\ pc = "failed" /\ error.exc = "DegenerateInputError"
       /\ \A l \in df.index : ~IsNaN(df.Weight[l])
       /\ Panels \cap rendered = {}

\* C3: a pass that has ended has drawn all three of the summary panel,
\* the chart and the recommendation panel, or none of them.
C3_AllOrNothing ==
    pc \in Ended => (Panels \subseteq rendered \/ Panels \cap rendered = {})

\* C4: the selected row has the minimal projected gap over all rows of
\* comparison, the gap being |100 * (value + 1250) / (total + 1250) -
\* target| with value 0 for a ticker that is not held; a row that is the
\* unique minimiser and has target weight above actual weight is therefore
\* the one selected; the gap and the target shown are the selected row's.
C4_MinimalGap ==
    Selected =>
        LET best == suggestions[1]
            gap  == RowGaps
            b    == BestRow
        IN  /\ \E i \in Rows : comparison[i].Ticker = best.ticker
            /\ best.new_diff = gap[b]
            /\ best.target_weight = comparison[b].Target
            /\ \A j \in Rows : RatLeq(gap[b], gap[j])
            /\ \A i \in Rows :
                  (/\ RatLess(comparison[i].Weight, RatOfInt(comparison[i].Target))
                   /\ \A j \in Rows \ {i} : RatLess(gap[i], gap[j]))
                  => best.ticker = comparison[i].Ticker
            /\ pc = "done" =>
                  /\ recommendation.best_ticker = best.ticker
                  /\ recommendation.projected_gap = Round2(Num(gap[b]))
                  /\ recommendation.target_weight = Num(100 * comparison[b].Target)

\* C4's case: the specification's end-to-end scenario, recommended MSFT,
\* 6.25 shares, projected gap 9.23, target weight 60.
C4_Witness ==
    /\ pc = "done"
    /\ TableIndex(nasdaq_df) = {"AAPL", "MSFT"}
    /\ TableWeight(nasdaq_df, "AAPL") = 40
    /\ TableWeight(nasdaq_df, "MSFT") = 60
    /\ portfolio = ("AAPL" :> 10) @@ ("MSFT" :> 5)
    /\ prices = ("AAPL" :> Num(100)) @@ ("MSFT" :> Num(200))
    /\ recommendation = [best_ticker |-> "MSFT", shares_to_buy |-> Num(625),
                         target_weight |-> Num(6000), projected_gap |-> Num(923)]

\* C5: among rows with the same minimal projected gap the one that comes
\* first in comparison is selected: no row before the selected one has a
\* gap as small as its own.
C5_FirstOfTies ==
    Selected =>
        LET gap == RowGaps
            b   == BestRow
        IN  \A j \in Rows : j < b => RatLess(gap[b], gap[j])

\* C5's case: a later row ties with the selected row at the minimal gap.
C5_Witness ==
    /\ Selected
    /\ \E j \in Rows : j > BestRow /\ RowGaps[j] = RowGaps[BestRow]

\* C6: comparison has exactly one row per ticker of the union of the
\* target tickers and the held tickers; a target-only ticker has actual
\* weight 0, a held-only ticker has target weight 0, and every row's
\* difference is actual weight minus target weight.
C6_UnionOfTickers ==
    PastWeights =>
        /\ {comparison[i].Ticker : i \in Rows} = TableIndex(nasdaq_df) \cup Held
        /\ \A i, j \in Rows : comparison[i].Ticker = comparison[j].Ticker => i = j
        /\ \A i \in Rows :
              /\ comparison[i].Ticker \notin Held => comparison[i].Weight = RatOfInt(0)
              /\ comparison[i].Ticker \notin TableIndex(nasdaq_df)
                    => comparison[i].Target = 0
              /\ comparison[i].Difference
                    = RatSub(comparison[i].Weight, RatOfInt(comparison[i].Target))

\* C7: with holdings that are not empty and a price for every held ticker,
\* the actual weights of the held tickers sum to 100, and so do the
\* weights of all rows of comparison.
C7_WeightsSumTo100 ==
    (PastWeights /\ Held # {} /\ \A t \in Held : Priced(t))
    => /\ \A t \in Held : t \in df.index /\ ~IsNaN(df.Weight[t])
       /\ RatSum([t \in Held |-> Val(df.Weight[t])], Held) = RatOfInt(100)
       /\ RatSum([i \in Rows |-> comparison[i].Weight], Rows) = RatOfInt(100)

\* C7's case: two priced holdings of different value, so that neither
\* weight is 0 or 100.
C7_Witness ==
    /\ PastWeights
    /\ \A t \in Held : Priced(t)
    /\ \E t, u \in Held : HeldValue(t) < HeldValue(u)

C9_CanonicalOrder ==
    PastWeights =>
        \A i, j \in {k \in Rows : comparison[k].Ticker \in TableIndex(nasdaq_df) \cup Held} :
          i < j =>
            \/ comparison[i].Target > comparison[j].Target
            \/ /\ comparison[i].Target = comparison[j].Target
               /\ Rank(comparison[i].Ticker) < Rank(comparison[j].Ticker)

\* C10: once initialised portfolio_submitted is True in every state, no
\* pass stops at the submit gate, and every pass goes on to the price
\* fetch with the holdings the sliders give: the top-20 tickers whose
\* slider is above 0, at the defaults until the form is first submitted.
C10_NeverHalts ==
    /\ portfolio_submitted \in {"absent", "True"}
    /\ pc # "stopped"
    /\ PastForm =>
          /\ portfolio_submitted = "True"
          /\ Held = {t \in TableIndex(Head_n(nasdaq_df, TopN)) : sliders[t] > 0}
          /\ \A t \in Held : portfolio[t] = sliders[t]
    /\ ~ever_submitted => \A t \in Tickers : sliders[t] = DefaultShares(t)

\* C10's case: the first pass of a session, before any submission, has
\* passed the gate with the default holdings.
C10_Witness ==
    /\ pc = "prices"
    /\ ~ever_submitted
    /\ Held # {}
    /\ \A t \in Held : portfolio[t] = DefaultShares(t)

=============================================================================
